---- MODULE Spec2Model ----
(***************************************************************************)
(* gbif_explorer: the /search route (app.py) driving                       *)
(* GBIFService.search_by_person / _fetch_batch (gbif_service.py), the      *)
(* persistence of the fetched occurrences through the SQLAlchemy session,  *)
(* and the /results, /export and /delete routes.                           *)
(*                                                                         *)
(* Optional values (Python None / SQL NULL) are sequences of length 0 or   *)
(* 1: None == <<>>, Some(v) == <<v>>.  Strings that the code inspects      *)
(* character by character are sequences of one-character strings.          *)
(***************************************************************************)
EXTENDS Integers, Sequences, FiniteSets, TLC

VARIABLES
    \* the database, as committed
    searches,         \* rows of table searches
    occurrences,      \* rows of table occurrences, in insertion order
    nextId,           \* next primary key of table searches
    \* the SQLAlchemy session of the request
    pending,          \* Occurrence objects added and not yet flushed
    flushed,          \* rows flushed in the open transaction, not committed
    txn,              \* "active", or "deactive" after a failed flush
    \* the /search request being handled
    pc,               \* "idle", "fetch", "persist", "except"
    form,             \* the person_name field of the last form posted
    search_id,        \* search_record.id (0: none)
    raw_occurrences,  \* what search_by_person returned
    idx,              \* position of the for loop over raw_occurrences
    exc,              \* the exception in flight (None: none)
    progress_info,    \* the dict progress_callback writes
    response,         \* how the last request ended
    \* the search_by_person / _fetch_batch call frame
    all_results, offset, total_count, attempt, data,
    \* the remote API
    remote,           \* the dataset the API holds for the name searched
    \* history of the current search_by_person call
    requests,         \* offset of every GET issued, in order
    notifications,    \* arguments of every progress_callback call, in order
    fails,            \* kinds of the failed attempts of the current page
    firstCount,       \* the count of the first response received
    consistent,       \* the dataset did not change during the call
    anyFailure,       \* some attempt of the call failed
    last,             \* name of the last step taken
    \* the /results and /export requests
    viewArgs, listed, exported

vars == <<searches, occurrences, nextId, pending, flushed, txn, pc, form,
          search_id, raw_occurrences, idx, exc, progress_info, response,
          all_results, offset, total_count, attempt, data, remote, requests,
          notifications, fails, firstCount, consistent, anyFailure, last,
          viewArgs, listed, exported>>

dbVars    == <<searches, occurrences, nextId>>
sessVars  == <<pending, flushed, txn>>
frameVars == <<all_results, offset, total_count, attempt, data>>
histVars  == <<requests, notifications, fails, firstCount, consistent, anyFailure>>
viewVars  == <<viewArgs, listed, exported>>

----------------------------------------------------------------------------
\* Optional values

None == <<>>

Some(v) == <<v>>

----------------------------------------------------------------------------
\* Configuration (config.py)

\* GBIF_SEARCH_LIMIT, scaled down from 300
Limit == 2

\* GBIF_MAX_RETRIES
MaxRetries == 3

\* RESULTS_PER_PAGE, scaled down from 50
ResultsPerPage == 2

\* Bounds of the model
MaxN == 3

\* primary keys the model lets table searches hand out
SearchIds == {1, 2}

----------------------------------------------------------------------------
\* Records of the remote API

Raw(key, recordedBy, identifiedBy, country, family, year, lat, lon) ==
    [key |-> key, recordedBy |-> recordedBy, identifiedBy |-> identifiedBy,
     country |-> country, family |-> family, year |-> year,
     decimalLatitude |-> lat, decimalLongitude |-> lon]

RecA == Raw(Some(1), Some(<<"A", "n">>), Some(<<"b">>), Some(<<"C", "h">>),
            Some(<<"F">>), Some(1955), Some(47), Some(8))

RecB == Raw(Some(2), Some(<<"a", "N", "n">>), None, Some(<<"c", "H">>),
            None, Some(1961), Some(46), None)

RecNoKey == Raw(None, Some(<<"b">>), Some(<<"A", "n">>), None,
                Some(<<"f", "a">>), None, None, None)

SampleRecords == {RecA, RecB, RecNoKey}

RECURSIVE SeqsUpTo(_, _)
SeqsUpTo(S, n) ==
    IF n = 0 THEN {<<>>}
    ELSE LET shorter == SeqsUpTo(S, n - 1)
         IN shorter \cup {Append(s, x) : s \in {t \in shorter : Len(t) = n - 1}, x \in S}

Datasets == SeqsUpTo(SampleRecords, MaxN)

\* what the API answers for limit=Limit, offset=off
Slice(ds, off) ==
    IF off >= Len(ds) THEN <<>>
    ELSE SubSeq(ds, off + 1, IF off + Limit <= Len(ds) THEN off + Limit ELSE Len(ds))

\* the "count" field of a response: the true size, or one that drifted
CountChoices(ds) == {Len(ds), MaxN + 1}

\* requests.exceptions.Timeout, and a RequestException that is no Timeout
FailKinds == {"Timeout", "ConnectionError"}

----------------------------------------------------------------------------
\* Strings

IsSpace(c) == c = " "

RECURSIVE LStrip(_)
LStrip(s) == IF s # <<>> /\ IsSpace(Head(s)) THEN LStrip(Tail(s)) ELSE s

RECURSIVE RStrip(_)
RStrip(s) ==
    IF s # <<>> /\ IsSpace(s[Len(s)]) THEN RStrip(SubSeq(s, 1, Len(s) - 1)) ELSE s

Strip(s) == RStrip(LStrip(s))

PersonNameRaw(raw) == raw

\* person_name = request.form.get('person_name', '').strip()
PersonName(raw) == Strip(raw)

DigitChar == <<"0", "1", "2", "3", "4", "5", "6", "7", "8", "9">>

RECURSIVE Str(_)
Str(n) == IF n < 10 THEN <<DigitChar[n + 1]>>
          ELSE Append(Str(n \div 10), DigitChar[(n % 10) + 1])

NameInputs == {<<>>, <<" ">>, <<" ", "a", " ">>}

----------------------------------------------------------------------------
\* GBIFService.parse_occurrence

Truthy(opt) == opt # None /\ opt[1] # 0

ParseOccurrence(record) ==
    [gbif_id |-> IF Truthy(record.key) THEN Some(Str(record.key[1])) ELSE None,
     recorded_by |-> record.recordedBy,
     identified_by |-> record.identifiedBy,
     country |-> record.country,
     family |-> record.family,
     year |-> record.year,
     decimal_latitude |-> record.decimalLatitude,
     decimal_longitude |-> record.decimalLongitude]

\* Occurrence(search_id=search_record.id, **parsed_occ)
NewOccurrence(sid, parsed) ==
    [search_id |-> sid, gbif_id |-> parsed.gbif_id,
     recorded_by |-> parsed.recorded_by, identified_by |-> parsed.identified_by,
     country |-> parsed.country, family |-> parsed.family, year |-> parsed.year,
     decimal_latitude |-> parsed.decimal_latitude,
     decimal_longitude |-> parsed.decimal_longitude]

----------------------------------------------------------------------------
\* The database session

Range(s) == {s[i] : i \in 1..Len(s)}

\* table occurrences: gbif_id unique and not null
InsertOk(rows, o) ==
    /\ o.gbif_id # None
    /\ \A r \in Range(rows) : r.gbif_id # o.gbif_id

\* Session.flush(): INSERT the pending objects in the order they were added;
\* rows are the rows the transaction sees
RECURSIVE Flush(_, _)
Flush(rows, pend) ==
    IF pend = <<>> THEN [ok |-> TRUE, rows |-> rows]
    ELSE IF InsertOk(rows, Head(pend))
         THEN Flush(Append(rows, Head(pend)), Tail(pend))
         ELSE [ok |-> FALSE, rows |-> rows]

ExistingSameSearch(rows, sid, gbif_id) ==
    \E r \in Range(rows) : r.gbif_id = gbif_id /\ r.search_id = sid

\* Occurrence.query.filter_by(gbif_id=...).first() is not None; gbif_id=None
\* compiles to IS NULL, which no row satisfies
Existing(rows, sid, gbif_id) ==
    \E r \in Range(rows) : r.gbif_id = gbif_id

IntegrityError == [text |-> "IntegrityError", attempts |-> 0, cause |-> ""]

----------------------------------------------------------------------------
\* _fetch_batch

RetryAgainEarly(att) == att < MaxRetries - 2

RetryAgainAlways(att) == TRUE

\* if attempt < self.max_retries - 1: sleep and continue, else raise
RetryAgain(att) == att < MaxRetries - 1

ExhaustedMessageAlwaysFailed(kind) ==
    [text |-> "Request failed after", attempts |-> MaxRetries, cause |-> kind]

\* the two raise statements
ExhaustedMessage(kind) ==
    IF kind = "Timeout"
    THEN [text |-> "Request timed out after", attempts |-> MaxRetries, cause |-> ""]
    ELSE [text |-> "Request failed after", attempts |-> MaxRetries, cause |-> kind]

----------------------------------------------------------------------------
\* search_by_person

IsLastPageOnlyEmpty(results) == Len(results) = 0

\* if len(results) < self.limit: break
IsLastPage(results) == Len(results) < Limit

NextOffsetByOne(off) == off + 1

\* offset += self.limit
NextOffset(off) == off + Limit

TotalCountLatest(tc, count) == Some(count)

\* if total_count is None: total_count = data.get('count', 0)
TotalCount(tc, count) == IF tc = None THEN Some(count) ELSE tc

----------------------------------------------------------------------------
\* Initial state: an empty database, no request in progress

NoFrame ==
    /\ all_results = <<>> /\ offset = 0 /\ total_count = None
    /\ attempt = 0 /\ data = None

NoHistory ==
    /\ requests = <<>> /\ notifications = <<>> /\ fails = <<>>
    /\ firstCount = None /\ consistent = TRUE /\ anyFailure = FALSE

InitRequest ==
    /\ pending = <<>> /\ flushed = <<>> /\ txn = "active"
    /\ pc = "idle" /\ form = <<>> /\ search_id = 0
    /\ raw_occurrences = <<>> /\ idx = 1 /\ exc = None
    /\ progress_info = [current |-> 0, total |-> 0]
    /\ response = "none"
    /\ NoFrame /\ NoHistory
    /\ remote = <<>>
    /\ last = "init"

NoView == viewArgs = None /\ listed = None /\ exported = None

Init ==
    /\ searches = {}
    /\ occurrences = <<>>
    /\ nextId = 1
    /\ InitRequest
    /\ NoView

----------------------------------------------------------------------------
\* Table searches

SearchRow(id) == CHOOSE s \in searches : s.id = id

SetSearch(id, status, count, msg) ==
    {IF s.id = id
     THEN [s EXCEPT !.status = status, !.result_count = count, !.error_message = msg]
     ELSE s : s \in searches}

OccurrencesOf(rows, sid) == {r \in Range(rows) : r.search_id = sid}

ClearFrame ==
    /\ all_results' = <<>> /\ offset' = 0 /\ total_count' = None
    /\ attempt' = 0 /\ data' = None

ClearHistory ==
    /\ requests' = <<>> /\ notifications' = <<>> /\ fails' = <<>>
    /\ firstCount' = None /\ consistent' = TRUE /\ anyFailure' = FALSE

----------------------------------------------------------------------------
\* POST /search with a name that is empty after strip(): flash and redirect

SubmitBlank(raw) ==
    /\ pc = "idle"
    /\ PersonName(raw) = <<>>
    /\ form' = raw
    /\ response' = "rejected"
    /\ last' = "submit"
    /\ UNCHANGED <<dbVars, sessVars, pc, search_id, raw_occurrences, idx, exc,
                   progress_info, frameVars, remote, histVars, viewVars>>

\* POST /search: the Search row is created and committed, and search_by_person
\* is entered; the API holds some dataset for the name
SubmitSearch(raw, ds) ==
    /\ pc = "idle"
    /\ nextId \in SearchIds
    /\ PersonName(raw) # <<>>
    /\ form' = raw
    /\ searches' = searches \cup
          {[id |-> nextId, person_name |-> PersonName(raw), status |-> "downloading",
            result_count |-> 0, error_message |-> None]}
    /\ nextId' = nextId + 1
    /\ search_id' = nextId
    /\ progress_info' = [current |-> 0, total |-> 0]
    /\ pc' = "fetch"
    /\ ClearFrame /\ ClearHistory
    /\ remote' = ds
    /\ raw_occurrences' = <<>> /\ idx' = 1 /\ exc' = None
    /\ response' = "none"
    /\ last' = "submit"
    /\ UNCHANGED <<occurrences, sessVars, viewVars>>

\* the upstream dataset changes (once) while the pages are being fetched
RemoteShrink ==
    /\ pc = "fetch"
    /\ consistent
    /\ remote # <<>>
    /\ remote' = SubSeq(remote, 1, Len(remote) - 1)
    /\ consistent' = FALSE
    /\ last' = "drift"
    /\ UNCHANGED <<dbVars, sessVars, pc, form, search_id, raw_occurrences, idx, exc,
                   progress_info, response, frameVars, requests, notifications,
                   fails, firstCount, anyFailure, viewVars>>

\* search_by_person returns all_results to the route
ReturnResults(res) ==
    /\ pc' = "persist"
    /\ raw_occurrences' = res
    /\ idx' = 1

\* one GET that succeeds: the rest of the loop body of search_by_person
FetchOk(count) ==
    /\ pc = "fetch"
    /\ LET results == Slice(remote, offset)
           all == all_results \o results
           tc == TotalCount(total_count, count)
       IN /\ data' = Some([count |-> count, results |-> results])
          /\ requests' = Append(requests, offset)
          /\ all_results' = all
          /\ total_count' = tc
          /\ firstCount' = IF firstCount = None THEN Some(count) ELSE firstCount
          /\ notifications' = Append(notifications, <<Len(all), tc[1]>>)
          /\ progress_info' = [current |-> Len(all), total |-> tc[1]]
          /\ IF IsLastPage(results)
             THEN /\ ReturnResults(all)
                  /\ UNCHANGED <<offset, attempt, fails>>
             ELSE /\ offset' = NextOffset(offset)
                  /\ attempt' = 0
                  /\ fails' = <<>>
                  /\ UNCHANGED <<pc, raw_occurrences, idx>>
    /\ last' = "ok"
    /\ UNCHANGED <<dbVars, sessVars, form, search_id, exc, response, remote,
                   consistent, anyFailure, viewVars>>

\* one GET that times out or fails: the except clauses of _fetch_batch
FetchFail(kind) ==
    /\ pc = "fetch"
    /\ requests' = Append(requests, offset)
    /\ fails' = Append(fails, kind)
    /\ anyFailure' = TRUE
    /\ IF RetryAgain(attempt)
       THEN IF attempt + 1 < MaxRetries
            THEN \* time.sleep(retry_delay); continue
                 /\ attempt' = attempt + 1
                 /\ UNCHANGED <<pc, raw_occurrences, idx, exc>>
            ELSE \* the for loop ends: return None, and search_by_person breaks
                 /\ ReturnResults(all_results)
                 /\ UNCHANGED <<attempt, exc>>
       ELSE \* raise Exception(...): propagates through search_by_person
            /\ exc' = Some(ExhaustedMessage(kind))
            /\ pc' = "except"
            /\ UNCHANGED <<attempt, raw_occurrences, idx>>
    /\ last' = "fail"
    /\ UNCHANGED <<dbVars, sessVars, form, search_id, progress_info, response,
                   all_results, offset, total_count, data, remote, notifications,
                   firstCount, consistent, viewVars>>

----------------------------------------------------------------------------
\* The route after search_by_person has returned

\* the call frame of search_by_person and the closure of the callback are gone
DropFrame ==
    /\ ClearFrame /\ ClearHistory
    /\ remote' = <<>>
    /\ progress_info' = [current |-> 0, total |-> 0]

\* back to waiting for a request
EndRequest(how) ==
    /\ pc' = "idle"
    /\ response' = how
    /\ search_id' = 0
    /\ raw_occurrences' = <<>>
    /\ idx' = 1
    /\ exc' = None

\* one iteration of "for raw_occ in raw_occurrences": the query autoflushes the
\* object the previous iteration added; a flush that fails rolls the
\* transaction back and leaves it inactive, and the IntegrityError goes to
\* the except clause
PersistRecord ==
    /\ pc = "persist"
    /\ idx <= Len(raw_occurrences)
    /\ LET parsed == ParseOccurrence(raw_occurrences[idx])
           fl == Flush(occurrences \o flushed, pending)
       IN IF fl.ok
          THEN /\ flushed' = flushed \o pending
               /\ pending' = IF Existing(fl.rows, search_id, parsed.gbif_id)
                             THEN <<>>
                             ELSE <<NewOccurrence(search_id, parsed)>>
               /\ idx' = idx + 1
               /\ UNCHANGED <<txn, pc, exc>>
          ELSE /\ flushed' = <<>>
               /\ pending' = <<>>
               /\ txn' = "deactive"
               /\ exc' = Some(IntegrityError)
               /\ pc' = "except"
               /\ UNCHANGED idx
    /\ DropFrame
    /\ last' = "persist"
    /\ UNCHANGED <<dbVars, form, search_id, raw_occurrences, response, viewVars>>

\* after the loop: result_count, status and db.session.commit(); the commit
\* flushes first, and a flush that fails rolls the transaction back, leaves
\* it inactive, and raises
FinishSearch ==
    /\ pc = "persist"
    /\ idx > Len(raw_occurrences)
    /\ LET fl == Flush(occurrences \o flushed, pending)
       IN IF fl.ok
          THEN /\ occurrences' = fl.rows
               /\ searches' = SetSearch(search_id, "completed",
                                        Len(raw_occurrences), None)
               /\ EndRequest("completed")
               /\ UNCHANGED txn
          ELSE /\ exc' = Some(IntegrityError)
               /\ pc' = "except"
               /\ txn' = "deactive"
               /\ UNCHANGED <<searches, occurrences, search_id, raw_occurrences,
                              idx, response>>
    /\ pending' = <<>>
    /\ flushed' = <<>>
    /\ DropFrame
    /\ last' = "finish"
    /\ UNCHANGED <<nextId, form, viewVars>>

\* except Exception as e: status, error_message and db.session.commit(); on a
\* transaction left inactive by a failed flush the commit raises
\* PendingRollbackError, which nothing catches: the request ends with a 500 and
\* the session is removed
HandleException ==
    /\ pc = "except"
    /\ IF txn = "active"
       THEN /\ searches' = SetSearch(search_id, "error",
                                     SearchRow(search_id).result_count, exc)
            /\ EndRequest("error")
       ELSE /\ UNCHANGED searches
            /\ EndRequest("crash")
    /\ txn' = "active"
    /\ pending' = <<>>
    /\ flushed' = <<>>
    /\ DropFrame
    /\ last' = "except"
    /\ UNCHANGED <<occurrences, nextId, form, viewVars>>

\* POST /delete/<id>: the Search and, by the cascade, its occurrences
DeleteSearch(id) ==
    /\ pc = "idle"
    /\ \E s \in searches : s.id = id
    /\ searches' = {s \in searches : s.id # id}
    /\ occurrences' = SelectSeq(occurrences, LAMBDA r : r.search_id # id)
    /\ response' = "deleted"
    /\ last' = "delete"
    /\ UNCHANGED <<nextId, sessVars, pc, form, search_id, raw_occurrences, idx, exc,
                   progress_info, frameVars, remote, histVars, viewVars>>

----------------------------------------------------------------------------

Next ==
    \/ \E raw \in NameInputs : SubmitBlank(raw)
    \/ \E raw \in NameInputs, ds \in Datasets : SubmitSearch(raw, ds)
    \/ RemoteShrink
    \/ \E count \in CountChoices(remote) : FetchOk(count)
    \/ \E kind \in FailKinds : FetchFail(kind)
    \/ PersistRecord
    \/ FinishSearch
    \/ HandleException
    \/ \E id \in SearchIds : DeleteSearch(id)

Spec == Init /\ [][Next]_vars

----------------------------------------------------------------------------
\* GET /results/<id> and GET /export/<id>

LowerChar(c) ==
    CASE c = "A" -> "a" [] c = "B" -> "b" [] c = "C" -> "c" [] c = "F" -> "f"
      [] c = "H" -> "h" [] c = "N" -> "n" [] OTHER -> c

Lower(s) == [i \in 1..Len(s) |-> LowerChar(s[i])]

Contains(s, sub) ==
    \E i \in 0..(Len(s) - Len(sub)) : SubSeq(s, i + 1, i + Len(sub)) = sub

\* column.ilike('%pattern%'): NULL matches nothing
ILike(column, pattern) ==
    column # None /\ Contains(Lower(column[1]), Lower(pattern))

\* the filters of results(): lines 115-138
ResultsFilter(o, a) ==
    /\ a.recorded_by # <<>> => ILike(o.recorded_by, a.recorded_by)
    /\ a.identified_by # <<>> => ILike(o.identified_by, a.identified_by)
    /\ a.country # <<>> => ILike(o.country, a.country)
    /\ Truthy(a.year_min) => (o.year # None /\ o.year[1] >= a.year_min[1])
    /\ Truthy(a.year_max) => (o.year # None /\ o.year[1] <= a.year_max[1])
    /\ a.family # <<>> => ILike(o.family, a.family)
    /\ IF a.has_coordinates = "yes"
       THEN o.decimal_latitude # None /\ o.decimal_longitude # None
       ELSE IF a.has_coordinates = "no"
            THEN o.decimal_latitude = None \/ o.decimal_longitude = None
            ELSE TRUE

\* the filters of export(): lines 207-223
ExportFilter(o, a) ==
    /\ a.recorded_by # <<>> => ILike(o.recorded_by, a.recorded_by)
    /\ a.identified_by # <<>> => ILike(o.identified_by, a.identified_by)
    /\ a.country # <<>> => ILike(o.country, a.country)
    /\ Truthy(a.year_min) => (o.year # None /\ o.year[1] >= a.year_min[1])
    /\ Truthy(a.year_max) => (o.year # None /\ o.year[1] <= a.year_max[1])
    /\ a.family # <<>> => ILike(o.family, a.family)
    /\ IF a.has_coordinates = "yes"
       THEN o.decimal_latitude # None /\ o.decimal_longitude # None
       ELSE TRUE

\* search_record.occurrences
SearchOccurrences(sid) == SelectSeq(occurrences, LAMBDA r : r.search_id = sid)

ResultsQuery(sid, a) == SelectSeq(SearchOccurrences(sid), LAMBDA o : ResultsFilter(o, a))

ExportQuery(sid, a) == SelectSeq(SearchOccurrences(sid), LAMBDA o : ExportFilter(o, a))

\* query.paginate(page=page, per_page=per_page, error_out=False).items
Paginate(rows, page) ==
    LET p == IF page < 1 THEN 1 ELSE page
        first == (p - 1) * ResultsPerPage + 1
        lst == IF p * ResultsPerPage <= Len(rows) THEN p * ResultsPerPage ELSE Len(rows)
    IN IF first > Len(rows) THEN <<>> ELSE SubSeq(rows, first, lst)

\* pagination.pages
Pages(rows) == (Len(rows) + ResultsPerPage - 1) \div ResultsPerPage

Substrings == {<<>>, <<"a", "N">>}

FilterArgs ==
    [recorded_by : Substrings, identified_by : {<<>>, <<"B">>},
     country : {<<>>, <<"c", "h">>}, family : {<<>>, <<"f">>},
     year_min : {None, Some(0), Some(1950)}, year_max : {None, Some(1960)},
     has_coordinates : {"", "yes", "no"}]

ResultsRequest(sid, a, page) ==
    /\ pc = "idle"
    /\ viewArgs = None
    /\ \E s \in searches : s.id = sid
    /\ viewArgs' = Some([search_id |-> sid, args |-> a, page |-> page])
    /\ listed' = Some(Paginate(ResultsQuery(sid, a), page))
    /\ exported' = None
    /\ UNCHANGED <<dbVars, sessVars, pc, form, search_id, raw_occurrences, idx, exc,
                   progress_info, response, frameVars, remote, histVars, last>>

ExportRequest(sid, a) ==
    /\ pc = "idle"
    /\ viewArgs = None
    /\ \E s \in searches : s.id = sid
    /\ viewArgs' = Some([search_id |-> sid, args |-> a, page |-> 1])
    /\ exported' = Some(ExportQuery(sid, a))
    /\ listed' = None
    /\ UNCHANGED <<dbVars, sessVars, pc, form, search_id, raw_occurrences, idx, exc,
                   progress_info, response, frameVars, remote, histVars, last>>

\* the response has been sent
ViewDone ==
    /\ viewArgs # None
    /\ viewArgs' = None /\ listed' = None /\ exported' = None
    /\ UNCHANGED <<dbVars, sessVars, pc, form, search_id, raw_occurrences, idx, exc,
                   progress_info, response, frameVars, remote, histVars, last>>

\* records of the API with distinct keys, as one completed import stores them
RecC == Raw(Some(3), None, Some(<<"B", "b">>), Some(<<"D">>),
            Some(<<"F", "a">>), Some(1949), None, Some(9))

RecD == Raw(Some(4), Some(<<"n", "a", "n">>), Some(<<"b">>), Some(<<"C", "H">>),
            Some(<<"g">>), None, None, None)

ViewRecords == <<RecA, RecB, RecC, RecD>>

RECURSIVE Pick(_, _)
Pick(recs, keep) ==
    IF recs = <<>> THEN <<>>
    ELSE (IF Head(recs) \in keep THEN <<Head(recs)>> ELSE <<>>) \o Pick(Tail(recs), keep)

ImportedRows(sid, recs) ==
    [i \in 1..Len(recs) |-> NewOccurrence(sid, ParseOccurrence(recs[i]))]

InitView ==
    /\ \E keep \in SUBSET Range(ViewRecords) :
          LET recs == Pick(ViewRecords, keep)
          IN /\ occurrences = ImportedRows(1, recs)
             /\ searches = {[id |-> 1, person_name |-> <<"a">>, status |-> "completed",
                              result_count |-> Len(recs), error_message |-> None]}
    /\ nextId = 2
    /\ InitRequest
    /\ NoView

NextView ==
    \/ \E a \in FilterArgs, page \in 0..3 : ResultsRequest(1, a, page)
    \/ \E a \in FilterArgs : ExportRequest(1, a)
    \/ ViewDone

SpecView == InitView /\ [][NextView]_vars

----------------------------------------------------------------------------
\* Vocabulary of the properties

\* search_by_person has just returned: its frame and history are still there
JustReturned == pc = "persist" /\ last \in {"ok", "fail"}

\* _fetch_batch has just raised
JustRaised == pc = "except" /\ last = "fail"

\* a step that is one successful GET, one failed GET
OkStep == pc = "fetch" /\ last' = "ok" /\ requests' # requests

FailStep == pc = "fetch" /\ last' = "fail" /\ requests' # requests

CountIn(s, x) == Cardinality({i \in 1..Len(s) : s[i] = x})

IsPrefix(s, t) == Len(s) <= Len(t) /\ SubSeq(t, 1, Len(s)) = s

Ceil(n, l) == (n + l - 1) \div l

ExpectedOffsets(n) == [i \in 1..((n \div Limit) + 1) |-> (i - 1) * Limit]

HasId(record) == record.key # None /\ record.key[1] # 0

IsFetchFailure(e) ==
    e # None /\ e[1].text \in {"Request timed out after", "Request failed after"}

----------------------------------------------------------------------------
\* C1: when the API serves an unchanging dataset of N records in slices of at
\* most Limit and no request fails, the requests are at offsets 0, Limit,
\* 2*Limit, ... in increasing order, each once; when the call returns there
\* were ceil(N/Limit) of them (one more when Limit divides N) and the list
\* returned is the dataset, in order.
C1_RequestsAndResult ==
    (consistent /\ ~anyFailure /\ (pc = "fetch" \/ JustReturned)) =>
        LET N == Len(remote)
        IN /\ IsPrefix(requests, ExpectedOffsets(N))
           /\ all_results = SubSeq(remote, 1, Len(all_results))
           /\ JustReturned =>
                 /\ requests = ExpectedOffsets(N)
                 /\ Len(requests) = IF N % Limit = 0 THEN Ceil(N, Limit) + 1
                                     ELSE Ceil(N, Limit)
                 /\ raw_occurrences = remote

C1_Witness ==
    /\ JustReturned /\ consistent /\ ~anyFailure
    /\ Len(remote) = Limit
    /\ requests = <<0, Limit>>
    /\ raw_occurrences = remote

\* C2: a successful page shorter than Limit (empty included) ends the call
\* there, whatever count the response reports, and no request follows; a page
\* of exactly Limit records leaves the call about to request the next offset,
\* and every request made is for the current offset.
C2_ShortPageStops ==
    [][ /\ OkStep =>
            LET page == data'[1].results
            IN /\ Len(page) < Limit =>
                    (pc' = "persist" /\ raw_occurrences' = all_results')
               /\ Len(page) = Limit =>
                    (pc' = "fetch" /\ offset' = offset + Limit /\ attempt' = 0)
               /\ Len(page) <= Limit
        /\ pc # "fetch" => (requests' = requests \/ requests' = <<>>)
        /\ (pc = "fetch" /\ requests' # requests) => requests' = Append(requests, offset)
      ]_vars

C2_Witness ==
    /\ JustReturned /\ last = "ok"
    /\ Len(data[1].results) < Limit
    /\ data[1].count > Len(all_results)
    /\ Len(requests) > 1

C5_BlankRejected ==
    [][ (pc = "idle" /\ last' = "submit" /\ Strip(form') = <<>>) =>
            /\ searches' = searches
            /\ occurrences' = occurrences
            /\ nextId' = nextId
            /\ pc' = "idle"
            /\ requests' = requests /\ requests = <<>>
            /\ response' = "rejected"
      ]_vars

C5_Witness ==
    /\ last = "submit" /\ response = "rejected"
    /\ form = <<" ">>
    /\ searches # {}

RECURSIVE ExpectedNew(_, _, _)
ExpectedNew(raw, sid, seen) ==
    IF raw = <<>> THEN <<>>
    ELSE LET p == ParseOccurrence(Head(raw))
         IN IF p.gbif_id \in seen
            THEN ExpectedNew(Tail(raw), sid, seen)
            ELSE <<NewOccurrence(sid, p)>>
                   \o ExpectedNew(Tail(raw), sid, seen \cup {p.gbif_id})

StoredIds == {occurrences[i].gbif_id : i \in 1..Len(occurrences)}

\* C6: no two stored occurrences share a gbif_id; an import whose records all
\* carry an identifier never raises, and on completion the rows stored before
\* are untouched and exactly the identifiers not stored before are added, once
\* each, under the current search, in the order fetched.
C6_IdempotentPersistence ==
    /\ [](\A i, j \in 1..Len(occurrences) :
             occurrences[i].gbif_id = occurrences[j].gbif_id => i = j)
    /\ [][(pc = "persist" /\ \A i \in 1..Len(raw_occurrences) :
                                HasId(raw_occurrences[i])) => pc' # "except"]_vars
    /\ [][(pc = "persist" /\ pc' = "idle") =>
             occurrences' = occurrences
                              \o ExpectedNew(raw_occurrences, search_id, StoredIds)]_vars

C6_Witness ==
    /\ pc = "idle" /\ last = "finish"
    /\ \E s \in searches :
          /\ s.id = 2 /\ s.status = "completed"
          /\ s.result_count = 3
          /\ Cardinality(OccurrencesOf(occurrences, 2)) = 1
    /\ Cardinality(OccurrencesOf(occurrences, 1)) = 1

\* C7: the callback runs exactly once for each successful page, the short last
\* one included, and never for a failed attempt; the fetched-so-far values do
\* not decrease and are the number of records accumulated; every total is the
\* count the first response reported.
C7_ProgressNotifications ==
    /\ [][OkStep =>
             /\ notifications' =
                   Append(notifications, <<Len(all_results'), firstCount'[1]>>)
             /\ progress_info' = [current |-> Len(all_results'),
                                  total |-> firstCount'[1]]]_vars
    /\ [][FailStep =>
             (notifications' = notifications /\ progress_info' = progress_info)]_vars
    /\ [](\A i, j \in 1..Len(notifications) :
             i <= j => /\ notifications[i][1] <= notifications[j][1]
                       /\ notifications[i][2] = notifications[j][2])
    /\ []((pc = "fetch" \/ JustReturned) =>
             /\ Len(notifications) = Cardinality({o \in Range(requests) : o < offset})
                                       + (IF JustReturned THEN 1 ELSE 0)
             /\ notifications # <<>> =>
                   notifications[Len(notifications)][1] = Len(all_results))

C7_Witness ==
    /\ JustReturned
    /\ Len(notifications) = 2
    /\ anyFailure
    /\ data[1].count # firstCount[1]
    /\ notifications[1][1] < notifications[2][1]

\* C8 as stated: the terminal failure says "timed out" exactly when the
\* attempts of the page timed out.
C8_TimeoutIffAllTimedOut ==
    JustRaised =>
        (exc[1].text = "Request timed out after"
            <=> \A i \in 1..Len(fails) : fails[i] = "Timeout")

\* C8 amended: the terminal failure carries the attempt count MaxRetries, says
\* "timed out" exactly when the last attempt timed out, and otherwise says
\* "failed" with the cause of the last attempt.
C8_TimeoutIffLastTimedOut ==
    JustRaised =>
        /\ Len(fails) = MaxRetries
        /\ exc[1].attempts = MaxRetries
        /\ exc[1].text = "Request timed out after" <=> fails[Len(fails)] = "Timeout"
        /\ fails[Len(fails)] # "Timeout" =>
              (exc[1].text = "Request failed after" /\ exc[1].cause = fails[Len(fails)])

C8_Witness ==
    /\ JustRaised
    /\ fails[1] # "Timeout"
    /\ fails[Len(fails)] = "Timeout"
    /\ exc[1].text = "Request timed out after"

\* C9 as stated: what /export returns is, as a set, what /results selects
\* over all its pages, for the same search and filter arguments.
C9_ExportEqualsResults ==
    exported # None =>
        LET sid == viewArgs[1].search_id
            selected == ResultsQuery(sid, viewArgs[1].args)
        IN Range(exported[1]) =
             UNION {Range(Paginate(selected, p)) : p \in 1..Pages(selected)}

\* C10 as stated: once the request has finished, every Search is 'completed'
\* or 'error', and 'error' comes with a non-empty message.
C10_NoSearchLeftDownloading ==
    pc = "idle" =>
        \A s \in searches :
            /\ s.status \in {"completed", "error"}
            /\ s.status = "error" =>
                  (s.error_message # None /\ s.error_message[1].text # "")

\* C11 as stated: every Search with status 'completed' has a result_count equal
\* to the number of Occurrence rows stored under it.
C11_ResultCountIsStoredCount ==
    \A s \in searches :
        s.status = "completed" =>
            s.result_count = Len(SearchOccurrences(s.id))

====
